---- MODULE Spec2Model ----
(***************************************************************************)
(* ConnectionManager (src/main.go): the keyboard-driven selector.  The     *)
(* model covers the state of struct App that the key handlers read and     *)
(* write (module hover/commit, the tree cursor, the expansion map, the     *)
(* quit confirmation, the content of the main panel) and the dispatcher    *)
(* handleKeyEvent with every handler it calls.                             *)
(***************************************************************************)
EXTENDS Integers, Sequences, FiniteSets, TLC

VARIABLES
    state,            \* App.state (AppState)
    currentModule,    \* App.currentModule, 0-based index into modules
    hoveredModule,    \* App.hoveredModule, 0-based
    showingConfirm,   \* App.showingConfirm
    inTreeView,       \* App.inTreeView
    selectedProject,  \* App.selectedProject
    selectedEnv,      \* App.selectedEnv
    selectedConn,     \* App.selectedConn
    treeLevel,        \* App.treeLevel (0 project, 1 environment, 2 connection)
    expandedNodes,    \* App.expandedNodes: map[string]bool, a function on the keys present
    running,          \* TRUE until tview's Application.Stop() is called
    mainPanel,        \* what App.mainPanel shows: the title and text last set
    lastOp,           \* the handler the last key event was routed to (history)
    prev,             \* the App fields before the last key event (history)
    nEvents           \* the number of key events delivered so far

appVars == <<state, currentModule, hoveredModule, showingConfirm, inTreeView,
             selectedProject, selectedEnv, selectedConn, treeLevel,
             expandedNodes, running, mainPanel>>

vars == <<state, currentModule, hoveredModule, showingConfirm, inTreeView,
          selectedProject, selectedEnv, selectedConn, treeLevel,
          expandedNodes, running, mainPanel, lastOp, prev, nEvents>>

----------------------------------------------------------------------------
(* Bounds of the exploration.                                              *)

\* The number of key events delivered in an explored run.
MaxEvents == 9

----------------------------------------------------------------------------
(* Constants of the program.                                               *)

Normal == 0
Edit == 1

LevelProject == 0
LevelEnvironment == 1
LevelConnection == 2

modules == <<"SSH", "MySQL", "PostgreSQL", "Redis">>

\* a.modules[i] with Go's 0-based index
ModuleAt(i) == modules[i + 1]

----------------------------------------------------------------------------
(* Key events (tcell.EventKey): Key() and, for KeyRune, Rune().            *)

NoRune == "none"

SpecialKeys == {"KeyUp", "KeyDown", "KeyLeft", "KeyRight", "KeyEnter", "KeyEsc", "KeyTab"}

Runes == {"y", "Y", "n", "N", "h", "H", "l", "L", "k", "K", "j", "J", "q", "Q", " ", "x"}

Events == [Key : SpecialKeys, Rune : {NoRune}] \cup [Key : {"KeyRune"}, Rune : Runes]

----------------------------------------------------------------------------
(* The static catalog.  Names are transliterated; only the module name     *)
(* selects the list.                                                       *)

getProjectListOf(moduleName) ==
    CASE moduleName = "SSH" ->
            <<[Name |-> "web servers"], [Name |-> "databases"], [Name |-> "dev environments"]>>
      [] moduleName = "MySQL" ->
            <<[Name |-> "production db"], [Name |-> "analytics db"], [Name |-> "test db"]>>
      [] moduleName = "PostgreSQL" ->
            <<[Name |-> "main business db"], [Name |-> "reporting db"], [Name |-> "backup db"]>>
      [] moduleName = "Redis" ->
            <<[Name |-> "cache cluster"], [Name |-> "session store"], [Name |-> "message queue"]>>
      [] OTHER -> <<>>

getProjectList == getProjectListOf(ModuleAt(currentModule))

\* getEnvironmentList giving the last project two environments as well
getEnvironmentList_twoEverywhere(projectIndex) ==
    <<[Name |-> "production"], [Name |-> "testing"]>>

getEnvironmentList(projectIndex) ==
    IF projectIndex = 2
    THEN <<[Name |-> "development"]>>
    ELSE <<[Name |-> "production"], [Name |-> "testing"]>>

getConnectionList(projectIndex, envIndex) ==
    LET m == ModuleAt(currentModule)
    IN  <<[Name |-> m \o "-01", Status |-> "connected"],
          [Name |-> m \o "-02", Status |-> "disconnected"],
          [Name |-> m \o "-03", Status |-> "connecting"]>>

getProjectCount == Len(getProjectList)

getEnvironmentCount == Len(getEnvironmentList(selectedProject))

getConnectionCount == Len(getConnectionList(selectedProject, selectedEnv))

hasConnections == getConnectionCount > 0

----------------------------------------------------------------------------
(* Keys of the expansion map, built as fmt.Sprintf builds them.            *)

\* fmt.Sprintf("%s-proj-%d", module, i)
projectKey(moduleName, i) == moduleName \o "-proj-" \o ToString(i)

\* fmt.Sprintf("%s-proj-%d-env-%d", module, i, j)
envKey(moduleName, i, j) ==
    moduleName \o "-proj-" \o ToString(i) \o "-env-" \o ToString(j)

\* fmt.Sprintf("%s-%d-%d-%d", module, selectedProject, selectedEnv, selectedConn)
getCurrentNodeKey ==
    ModuleAt(currentModule) \o "-" \o ToString(selectedProject)
        \o "-" \o ToString(selectedEnv) \o "-" \o ToString(selectedConn)

\* m[key] of a Go map[string]bool: false when the key is absent
MapGet(m, key) == IF key \in DOMAIN m THEN m[key] ELSE FALSE

\* m[key] = value
MapSet(m, key, value) ==
    [k \in (DOMAIN m) \cup {key} |-> IF k = key THEN value ELSE m[k]]

EmptyMap == [k \in {} |-> FALSE]

----------------------------------------------------------------------------
(* The App fields as one record, for the history variable.                 *)

Snapshot ==
    [state |-> state, currentModule |-> currentModule,
     hoveredModule |-> hoveredModule, showingConfirm |-> showingConfirm,
     inTreeView |-> inTreeView, selectedProject |-> selectedProject,
     selectedEnv |-> selectedEnv, selectedConn |-> selectedConn,
     treeLevel |-> treeLevel, expandedNodes |-> expandedNodes,
     running |-> running]

----------------------------------------------------------------------------
(* Rendering of the main panel.  The text is modelled by what it shows:    *)
(* the lines in order, each with its arrow, depth, expand icon, name and   *)
(* connection status, and the hint line chosen by treeLevel.               *)

Line(arrow, depth, icon, name, status) ==
    [arrow |-> arrow, depth |-> depth, icon |-> icon, name |-> name, status |-> status]

expandIcon(isExpanded) == IF isExpanded THEN "-" ELSE "+"

\* the lines of the connections of environment j of project i
ConnectionLines(i, j) ==
    LET connections == getConnectionList(i, j)
    IN  [k \in 1..Len(connections) |->
            Line(treeLevel = 2 /\ i = selectedProject /\ j = selectedEnv
                     /\ k - 1 = selectedConn,
                 3, "", connections[k].Name, connections[k].Status)]

\* the lines of environments j, j+1, ... of project i, each followed by its
\* connections when its flag is set
RECURSIVE EnvironmentLinesFrom(_, _)
EnvironmentLinesFrom(i, j) ==
    LET environments == getEnvironmentList(i)
        isEnvExpanded == MapGet(expandedNodes, envKey(ModuleAt(currentModule), i, j))
    IN  IF j >= Len(environments)
        THEN <<>>
        ELSE <<Line(treeLevel = 1 /\ i = selectedProject /\ j = selectedEnv,
                    2, expandIcon(isEnvExpanded), environments[j + 1].Name, "")>>
             \o (IF isEnvExpanded THEN ConnectionLines(i, j) ELSE <<>>)
             \o EnvironmentLinesFrom(i, j + 1)

\* the lines of projects i, i+1, ..., each followed by its environments when
\* its flag is set
RECURSIVE ProjectLinesFrom(_)
ProjectLinesFrom(i) ==
    LET projects == getProjectList
        isProjectExpanded == MapGet(expandedNodes, projectKey(ModuleAt(currentModule), i))
    IN  IF i >= Len(projects)
        THEN <<>>
        ELSE <<Line(treeLevel = 0 /\ i = selectedProject,
                    1, expandIcon(isProjectExpanded), projects[i + 1].Name, "")>>
             \o (IF isProjectExpanded THEN EnvironmentLinesFrom(i, 0) ELSE <<>>)
             \o ProjectLinesFrom(i + 1)

renderTreeView ==
    [view |-> "tree", module |-> ModuleAt(currentModule),
     lines |-> ProjectLinesFrom(0), hint |-> treeLevel]

\* the overview text depends on the module name alone
renderOverview ==
    [view |-> "overview", module |-> ModuleAt(currentModule),
     lines |-> <<>>, hint |-> 0]

\* what updateMainPanel would put into the panel in the current state
MainPanelContent ==
    [title |-> ModuleAt(currentModule),
     text |-> IF inTreeView THEN renderTreeView ELSE renderOverview]

\* updateMainPanel, called after the handler's assignments
updateMainPanel == mainPanel' = MainPanelContent'

----------------------------------------------------------------------------
(* NewApp, then initUI (which renders the panels once)                     *)

Init ==
    /\ state = Normal
    /\ currentModule = 0
    /\ hoveredModule = 0
    /\ showingConfirm = FALSE
    /\ inTreeView = FALSE
    /\ selectedProject = 0
    /\ selectedEnv = 0
    /\ selectedConn = 0
    /\ treeLevel = 0
    /\ expandedNodes = EmptyMap
    /\ running = TRUE
    /\ mainPanel = MainPanelContent
    /\ lastOp = "NewApp"
    /\ prev = Snapshot
    /\ nEvents = 0

----------------------------------------------------------------------------
(* Handlers.  Each is the whole Go method.  Of the rendering calls only    *)
(* updateMainPanel is modelled; updateModuleBar and updateStatusBar write  *)
(* text no handler reads.                                                  *)

\* tview Application.Stop()
Stop ==
    /\ running' = FALSE
    /\ UNCHANGED <<state, currentModule, hoveredModule, showingConfirm, inTreeView,
                   selectedProject, selectedEnv, selectedConn, treeLevel, expandedNodes,
                   mainPanel>>

showExitConfirmation ==
    /\ showingConfirm' = TRUE
    /\ UNCHANGED <<state, currentModule, hoveredModule, inTreeView, selectedProject,
                   selectedEnv, selectedConn, treeLevel, expandedNodes, running,
                   mainPanel>>

\* hideExitConfirmation also taking the hover back to the committed module
hideExitConfirmation_resetsHover ==
    /\ showingConfirm' = FALSE
    /\ hoveredModule' = currentModule
    /\ UNCHANGED <<state, currentModule, inTreeView, selectedProject,
                   selectedEnv, selectedConn, treeLevel, expandedNodes, running,
                   mainPanel>>

hideExitConfirmation ==
    /\ showingConfirm' = FALSE
    /\ UNCHANGED <<state, currentModule, hoveredModule, inTreeView, selectedProject,
                   selectedEnv, selectedConn, treeLevel, expandedNodes, running,
                   mainPanel>>

moveToPreviousHover ==
    /\ hoveredModule' = IF hoveredModule > 0 THEN hoveredModule - 1 ELSE hoveredModule
    /\ UNCHANGED <<state, currentModule, showingConfirm, inTreeView, selectedProject,
                   selectedEnv, selectedConn, treeLevel, expandedNodes, running,
                   mainPanel>>

\* moveToNextHover without the clamp at the last module
moveToNextHover_noClamp ==
    /\ hoveredModule' = hoveredModule + 1
    /\ UNCHANGED <<state, currentModule, showingConfirm, inTreeView, selectedProject,
                   selectedEnv, selectedConn, treeLevel, expandedNodes, running,
                   mainPanel>>

moveToNextHover ==
    /\ hoveredModule' = IF hoveredModule < Len(modules) - 1
                        THEN hoveredModule + 1 ELSE hoveredModule
    /\ UNCHANGED <<state, currentModule, showingConfirm, inTreeView, selectedProject,
                   selectedEnv, selectedConn, treeLevel, expandedNodes, running,
                   mainPanel>>

\* enterTreeView keeping the cursor of the previous visit
enterTreeView_keepsCursor ==
    /\ currentModule' = hoveredModule
    /\ inTreeView' = TRUE
    /\ UNCHANGED <<state, hoveredModule, showingConfirm, expandedNodes, running,
                   treeLevel, selectedProject, selectedEnv, selectedConn>>
    /\ updateMainPanel

\* enterTreeView starting every visit with a fresh expansion map
enterTreeView_clearsMap ==
    /\ currentModule' = hoveredModule
    /\ inTreeView' = TRUE
    /\ treeLevel' = 0
    /\ selectedProject' = 0
    /\ selectedEnv' = 0
    /\ selectedConn' = 0
    /\ expandedNodes' = EmptyMap
    /\ UNCHANGED <<state, hoveredModule, showingConfirm, running>>
    /\ updateMainPanel

enterTreeView ==
    /\ currentModule' = hoveredModule
    /\ inTreeView' = TRUE
    /\ treeLevel' = 0
    /\ selectedProject' = 0
    /\ selectedEnv' = 0
    /\ selectedConn' = 0
    /\ UNCHANGED <<state, hoveredModule, showingConfirm, expandedNodes, running>>
    /\ updateMainPanel

\* only the status bar is refreshed
exitTreeView ==
    /\ inTreeView' = FALSE
    /\ UNCHANGED <<state, currentModule, hoveredModule, showingConfirm, selectedProject,
                   selectedEnv, selectedConn, treeLevel, expandedNodes, running,
                   mainPanel>>

\* moveTreeUp wrapping from the first project to the last
moveTreeUp_wraps ==
    /\ CASE treeLevel = 0 ->
              /\ selectedProject' = IF selectedProject > 0
                                    THEN selectedProject - 1 ELSE getProjectCount - 1
              /\ UNCHANGED <<selectedEnv, selectedConn, treeLevel>>
         [] treeLevel = 1 ->
              /\ IF selectedEnv > 0
                 THEN selectedEnv' = selectedEnv - 1 /\ UNCHANGED treeLevel
                 ELSE treeLevel' = 0 /\ UNCHANGED selectedEnv
              /\ UNCHANGED <<selectedProject, selectedConn>>
         [] treeLevel = 2 ->
              /\ IF selectedConn > 0
                 THEN selectedConn' = selectedConn - 1 /\ UNCHANGED treeLevel
                 ELSE treeLevel' = 1 /\ UNCHANGED selectedConn
              /\ UNCHANGED <<selectedProject, selectedEnv>>
         [] OTHER ->
              UNCHANGED <<selectedProject, selectedEnv, selectedConn, treeLevel>>
    /\ UNCHANGED <<state, currentModule, hoveredModule, showingConfirm, inTreeView,
                   expandedNodes, running>>
    /\ updateMainPanel

moveTreeUp ==
    /\ CASE treeLevel = 0 ->
              /\ selectedProject' = IF selectedProject > 0
                                    THEN selectedProject - 1 ELSE selectedProject
              /\ UNCHANGED <<selectedEnv, selectedConn, treeLevel>>
         [] treeLevel = 1 ->
              /\ IF selectedEnv > 0
                 THEN selectedEnv' = selectedEnv - 1 /\ UNCHANGED treeLevel
                 ELSE treeLevel' = 0 /\ UNCHANGED selectedEnv
              /\ UNCHANGED <<selectedProject, selectedConn>>
         [] treeLevel = 2 ->
              /\ IF selectedConn > 0
                 THEN selectedConn' = selectedConn - 1 /\ UNCHANGED treeLevel
                 ELSE treeLevel' = 1 /\ UNCHANGED selectedConn
              /\ UNCHANGED <<selectedProject, selectedEnv>>
         [] OTHER ->
              UNCHANGED <<selectedProject, selectedEnv, selectedConn, treeLevel>>
    /\ UNCHANGED <<state, currentModule, hoveredModule, showingConfirm, inTreeView,
                   expandedNodes, running>>
    /\ IF (treeLevel = 0 /\ selectedProject > 0) \/ treeLevel \in {1, 2}
       THEN updateMainPanel
       ELSE UNCHANGED mainPanel

\* moveTreeDown descending from the last project into its first environment as well
moveTreeDown_descendsFromProject ==
    /\ CASE treeLevel = 0 ->
              LET maxProjects == getProjectCount - 1
              IN  /\ IF selectedProject < maxProjects
                     THEN /\ selectedProject' = selectedProject + 1
                          /\ UNCHANGED <<selectedEnv, treeLevel>>
                     ELSE IF getEnvironmentCount > 0
                          THEN /\ treeLevel' = 1
                               /\ selectedEnv' = 0
                               /\ UNCHANGED selectedProject
                          ELSE UNCHANGED <<selectedProject, selectedEnv, treeLevel>>
                  /\ UNCHANGED selectedConn
         [] treeLevel = 1 ->
              LET maxEnvs == getEnvironmentCount - 1
              IN  /\ IF selectedEnv < maxEnvs
                     THEN /\ selectedEnv' = selectedEnv + 1
                          /\ UNCHANGED <<selectedConn, treeLevel>>
                     ELSE IF hasConnections
                          THEN /\ treeLevel' = 2
                               /\ selectedConn' = 0
                               /\ UNCHANGED selectedEnv
                          ELSE UNCHANGED <<selectedEnv, selectedConn, treeLevel>>
                  /\ UNCHANGED selectedProject
         [] treeLevel = 2 ->
              LET maxConns == getConnectionCount - 1
              IN  /\ selectedConn' = IF selectedConn < maxConns
                                     THEN selectedConn + 1 ELSE selectedConn
                  /\ UNCHANGED <<selectedProject, selectedEnv, treeLevel>>
         [] OTHER ->
              UNCHANGED <<selectedProject, selectedEnv, selectedConn, treeLevel>>
    /\ UNCHANGED <<state, currentModule, hoveredModule, showingConfirm, inTreeView,
                   expandedNodes, running>>
    /\ IF \/ treeLevel \in {0, 1}
          \/ treeLevel = 2 /\ selectedConn < getConnectionCount - 1
       THEN updateMainPanel
       ELSE UNCHANGED mainPanel

moveTreeDown ==
    /\ CASE treeLevel = 0 ->
              LET maxProjects == getProjectCount - 1
              IN  /\ selectedProject' = IF selectedProject < maxProjects
                                        THEN selectedProject + 1 ELSE selectedProject
                  /\ UNCHANGED <<selectedEnv, selectedConn, treeLevel>>
         [] treeLevel = 1 ->
              LET maxEnvs == getEnvironmentCount - 1
              IN  /\ IF selectedEnv < maxEnvs
                     THEN /\ selectedEnv' = selectedEnv + 1
                          /\ UNCHANGED <<selectedConn, treeLevel>>
                     ELSE IF hasConnections
                          THEN /\ treeLevel' = 2
                               /\ selectedConn' = 0
                               /\ UNCHANGED selectedEnv
                          ELSE UNCHANGED <<selectedEnv, selectedConn, treeLevel>>
                  /\ UNCHANGED selectedProject
         [] treeLevel = 2 ->
              LET maxConns == getConnectionCount - 1
              IN  /\ selectedConn' = IF selectedConn < maxConns
                                     THEN selectedConn + 1 ELSE selectedConn
                  /\ UNCHANGED <<selectedProject, selectedEnv, treeLevel>>
         [] OTHER ->
              UNCHANGED <<selectedProject, selectedEnv, selectedConn, treeLevel>>
    /\ UNCHANGED <<state, currentModule, hoveredModule, showingConfirm, inTreeView,
                   expandedNodes, running>>
    /\ IF \/ treeLevel = 0 /\ selectedProject < getProjectCount - 1
          \/ treeLevel = 1
          \/ treeLevel = 2 /\ selectedConn < getConnectionCount - 1
       THEN updateMainPanel
       ELSE UNCHANGED mainPanel

\* collapseOrMoveUp ascending without clearing the flag of the node it leaves
collapseOrMoveUp_keepsFlag ==
    CASE treeLevel = 2 ->
           /\ treeLevel' = 1
           /\ UNCHANGED <<state, currentModule, hoveredModule, showingConfirm, inTreeView,
                          selectedProject, selectedEnv, selectedConn, expandedNodes, running>>
           /\ updateMainPanel
      [] treeLevel = 1 ->
           /\ treeLevel' = 0
           /\ UNCHANGED <<state, currentModule, hoveredModule, showingConfirm, inTreeView,
                          selectedProject, selectedEnv, selectedConn, expandedNodes, running>>
           /\ updateMainPanel
      [] treeLevel = 0 ->
           exitTreeView
      [] OTHER ->
           UNCHANGED appVars

\* collapseOrMoveUp clearing, with a project's flag, the flags of its environments
collapseOrMoveUp_cascades ==
    CASE treeLevel = 2 ->
           /\ treeLevel' = 1
           /\ expandedNodes' = MapSet(expandedNodes,
                  envKey(ModuleAt(currentModule), selectedProject, selectedEnv), FALSE)
           /\ UNCHANGED <<state, currentModule, hoveredModule, showingConfirm, inTreeView,
                          selectedProject, selectedEnv, selectedConn, running>>
           /\ updateMainPanel
      [] treeLevel = 1 ->
           /\ treeLevel' = 0
           /\ expandedNodes' =
                  LET cleared == MapSet(expandedNodes,
                          projectKey(ModuleAt(currentModule), selectedProject), FALSE)
                      envKeys == {envKey(ModuleAt(currentModule), selectedProject, j) :
                                      j \in 0..(getEnvironmentCount - 1)}
                  IN  [k \in DOMAIN cleared |-> IF k \in envKeys THEN FALSE ELSE cleared[k]]
           /\ UNCHANGED <<state, currentModule, hoveredModule, showingConfirm, inTreeView,
                          selectedProject, selectedEnv, selectedConn, running>>
           /\ updateMainPanel
      [] treeLevel = 0 ->
           exitTreeView
      [] OTHER ->
           UNCHANGED appVars

\* collapseOrMoveUp staying in the tree at the project level
collapseOrMoveUp_staysAtProject ==
    CASE treeLevel = 2 ->
           /\ treeLevel' = 1
           /\ expandedNodes' = MapSet(expandedNodes,
                  envKey(ModuleAt(currentModule), selectedProject, selectedEnv), FALSE)
           /\ UNCHANGED <<state, currentModule, hoveredModule, showingConfirm, inTreeView,
                          selectedProject, selectedEnv, selectedConn, running>>
           /\ updateMainPanel
      [] treeLevel = 1 ->
           /\ treeLevel' = 0
           /\ expandedNodes' = MapSet(expandedNodes,
                  projectKey(ModuleAt(currentModule), selectedProject), FALSE)
           /\ UNCHANGED <<state, currentModule, hoveredModule, showingConfirm, inTreeView,
                          selectedProject, selectedEnv, selectedConn, running>>
           /\ updateMainPanel
      [] OTHER ->
           UNCHANGED appVars

collapseOrMoveUp ==
    CASE treeLevel = 2 ->
           /\ treeLevel' = 1
           /\ expandedNodes' = MapSet(expandedNodes,
                  envKey(ModuleAt(currentModule), selectedProject, selectedEnv), FALSE)
           /\ UNCHANGED <<state, currentModule, hoveredModule, showingConfirm, inTreeView,
                          selectedProject, selectedEnv, selectedConn, running>>
           /\ updateMainPanel
      [] treeLevel = 1 ->
           /\ treeLevel' = 0
           /\ expandedNodes' = MapSet(expandedNodes,
                  projectKey(ModuleAt(currentModule), selectedProject), FALSE)
           /\ UNCHANGED <<state, currentModule, hoveredModule, showingConfirm, inTreeView,
                          selectedProject, selectedEnv, selectedConn, running>>
           /\ updateMainPanel
      [] treeLevel = 0 ->
           exitTreeView
      [] OTHER ->
           UNCHANGED appVars

\* expandOrMoveDown with the child index left as it was on descending
expandOrMoveDown_keepsChildIndex ==
    CASE treeLevel = 0 ->
           /\ expandedNodes' = MapSet(expandedNodes,
                  projectKey(ModuleAt(currentModule), selectedProject), TRUE)
           /\ IF getEnvironmentCount > 0
              THEN treeLevel' = 1
              ELSE UNCHANGED treeLevel
           /\ UNCHANGED <<state, currentModule, hoveredModule, showingConfirm, inTreeView,
                          selectedProject, selectedEnv, selectedConn, running>>
           /\ IF getEnvironmentCount > 0 THEN updateMainPanel ELSE UNCHANGED mainPanel
      [] treeLevel = 1 ->
           /\ expandedNodes' = MapSet(expandedNodes,
                  envKey(ModuleAt(currentModule), selectedProject, selectedEnv), TRUE)
           /\ IF hasConnections
              THEN treeLevel' = 2
              ELSE UNCHANGED treeLevel
           /\ UNCHANGED <<state, currentModule, hoveredModule, showingConfirm, inTreeView,
                          selectedProject, selectedEnv, selectedConn, running>>
           /\ IF hasConnections THEN updateMainPanel ELSE UNCHANGED mainPanel
      [] OTHER ->
           UNCHANGED appVars

expandOrMoveDown ==
    CASE treeLevel = 0 ->
           /\ expandedNodes' = MapSet(expandedNodes,
                  projectKey(ModuleAt(currentModule), selectedProject), TRUE)
           /\ IF getEnvironmentCount > 0
              THEN treeLevel' = 1 /\ selectedEnv' = 0
              ELSE UNCHANGED <<treeLevel, selectedEnv>>
           /\ UNCHANGED <<state, currentModule, hoveredModule, showingConfirm, inTreeView,
                          selectedProject, selectedConn, running>>
           /\ IF getEnvironmentCount > 0 THEN updateMainPanel ELSE UNCHANGED mainPanel
      [] treeLevel = 1 ->
           /\ expandedNodes' = MapSet(expandedNodes,
                  envKey(ModuleAt(currentModule), selectedProject, selectedEnv), TRUE)
           /\ IF hasConnections
              THEN treeLevel' = 2 /\ selectedConn' = 0
              ELSE UNCHANGED <<treeLevel, selectedConn>>
           /\ UNCHANGED <<state, currentModule, hoveredModule, showingConfirm, inTreeView,
                          selectedProject, selectedEnv, running>>
           /\ IF hasConnections THEN updateMainPanel ELSE UNCHANGED mainPanel
      [] OTHER ->
           UNCHANGED appVars

\* toggleExpansion storing true instead of the negated flag
toggleExpansion_setsTrue ==
    LET nodeKey == getCurrentNodeKey
    IN  /\ expandedNodes' = MapSet(expandedNodes, nodeKey, TRUE)
        /\ UNCHANGED <<state, currentModule, hoveredModule, showingConfirm, inTreeView,
                       selectedProject, selectedEnv, selectedConn, treeLevel, running>>
        /\ updateMainPanel

toggleExpansion ==
    LET nodeKey == getCurrentNodeKey
    IN  /\ expandedNodes' = MapSet(expandedNodes, nodeKey, ~MapGet(expandedNodes, nodeKey))
        /\ UNCHANGED <<state, currentModule, hoveredModule, showingConfirm, inTreeView,
                       selectedProject, selectedEnv, selectedConn, treeLevel, running>>
        /\ updateMainPanel

\* only the status bar is refreshed
activateTreeItem == UNCHANGED appVars

----------------------------------------------------------------------------
(* Dispatch: handleKeyEvent and handleTreeNavigation.                      *)

IsRune(ev, rs) == ev.Key = "KeyRune" /\ ev.Rune \in rs

\* The handler handleTreeNavigation calls for ev ("returnEvent": `return event`).
\* handleTreeNavigation opening the exit confirmation on q
handleTreeNavigation_qConfirms(ev) ==
    CASE ev.Key = "KeyUp" -> "moveTreeUp"
      [] ev.Key = "KeyDown" -> "moveTreeDown"
      [] ev.Key = "KeyLeft" -> "collapseOrMoveUp"
      [] ev.Key = "KeyRight" -> "expandOrMoveDown"
      [] ev.Key = "KeyEsc" -> "exitTreeView"
      [] ev.Key = "KeyEnter" -> "activateTreeItem"
      [] IsRune(ev, {"k", "K"}) -> "moveTreeUp"
      [] IsRune(ev, {"j", "J"}) -> "moveTreeDown"
      [] IsRune(ev, {"h", "H"}) -> "collapseOrMoveUp"
      [] IsRune(ev, {"l", "L"}) -> "expandOrMoveDown"
      [] IsRune(ev, {"q", "Q"}) -> "showExitConfirmation"
      [] IsRune(ev, {" "}) -> "toggleExpansion"
      [] OTHER -> "returnEvent"

handleTreeNavigation(ev) ==
    CASE ev.Key = "KeyUp" -> "moveTreeUp"
      [] ev.Key = "KeyDown" -> "moveTreeDown"
      [] ev.Key = "KeyLeft" -> "collapseOrMoveUp"
      [] ev.Key = "KeyRight" -> "expandOrMoveDown"
      [] ev.Key = "KeyEsc" -> "exitTreeView"
      [] ev.Key = "KeyEnter" -> "activateTreeItem"
      [] IsRune(ev, {"k", "K"}) -> "moveTreeUp"
      [] IsRune(ev, {"j", "J"}) -> "moveTreeDown"
      [] IsRune(ev, {"h", "H"}) -> "collapseOrMoveUp"
      [] IsRune(ev, {"l", "L"}) -> "expandOrMoveDown"
      [] IsRune(ev, {"q", "Q"}) -> "exitTreeView"
      [] IsRune(ev, {" "}) -> "toggleExpansion"
      [] OTHER -> "returnEvent"

\* The handler handleKeyEvent calls for ev in the current state.
\* handleKeyEvent falling through to the module bar when the pending
\* confirmation does not know the key
handleKeyEvent_fallsThrough(ev) ==
    IF showingConfirm /\ IsRune(ev, {"y", "Y"})
    THEN "Stop"
    ELSE IF showingConfirm /\ IsRune(ev, {"n", "N"})
    THEN "hideExitConfirmation"
    ELSE IF state # Normal
    THEN "returnEvent"
    ELSE IF inTreeView
    THEN handleTreeNavigation(ev)
    ELSE CASE ev.Key = "KeyLeft" -> "moveToPreviousHover"
           [] ev.Key = "KeyRight" -> "moveToNextHover"
           [] ev.Key = "KeyEnter" -> "enterTreeView"
           [] IsRune(ev, {"h", "H"}) -> "moveToPreviousHover"
           [] IsRune(ev, {"l", "L"}) -> "moveToNextHover"
           [] IsRune(ev, {" "}) -> "enterTreeView"
           [] IsRune(ev, {"q", "Q"}) -> "showExitConfirmation"
           [] OTHER -> "returnEvent"

handleKeyEvent(ev) ==
    IF showingConfirm
    THEN CASE IsRune(ev, {"y", "Y"}) -> "Stop"
           [] IsRune(ev, {"n", "N"}) -> "hideExitConfirmation"
           [] OTHER -> "returnEvent"
    ELSE IF state # Normal
    THEN "returnEvent"
    ELSE IF inTreeView
    THEN handleTreeNavigation(ev)
    ELSE CASE ev.Key = "KeyLeft" -> "moveToPreviousHover"
           [] ev.Key = "KeyRight" -> "moveToNextHover"
           [] ev.Key = "KeyEnter" -> "enterTreeView"
           [] IsRune(ev, {"h", "H"}) -> "moveToPreviousHover"
           [] IsRune(ev, {"l", "L"}) -> "moveToNextHover"
           [] IsRune(ev, {" "}) -> "enterTreeView"
           [] IsRune(ev, {"q", "Q"}) -> "showExitConfirmation"
           [] OTHER -> "returnEvent"

\* `return event`: the event is handed back unhandled, no field changes
returnEvent == UNCHANGED appVars

\* One key event reaches the input capture while the application runs and is
\* routed to handler h; the history variables record the step.
Deliver(h) ==
    /\ running
    /\ nEvents < MaxEvents
    /\ \E ev \in Events : handleKeyEvent(ev) = h
    /\ lastOp' = h
    /\ prev' = Snapshot
    /\ nEvents' = nEvents + 1

Next ==
    \/ Deliver("Stop") /\ Stop
    \/ Deliver("hideExitConfirmation") /\ hideExitConfirmation
    \/ Deliver("returnEvent") /\ returnEvent
    \/ Deliver("moveToPreviousHover") /\ moveToPreviousHover
    \/ Deliver("moveToNextHover") /\ moveToNextHover
    \/ Deliver("enterTreeView") /\ enterTreeView
    \/ Deliver("showExitConfirmation") /\ showExitConfirmation
    \/ Deliver("moveTreeUp") /\ moveTreeUp
    \/ Deliver("moveTreeDown") /\ moveTreeDown
    \/ Deliver("collapseOrMoveUp") /\ collapseOrMoveUp
    \/ Deliver("expandOrMoveDown") /\ expandOrMoveDown
    \/ Deliver("exitTreeView") /\ exitTreeView
    \/ Deliver("activateTreeItem") /\ activateTreeItem
    \/ Deliver("toggleExpansion") /\ toggleExpansion

Spec == Init /\ [][Next]_vars

----------------------------------------------------------------------------
(* Helpers of the properties: counts for a given path, the cursor, the     *)
(* comparison of two expansion maps.                                       *)

ProjectCountOf(m) == Len(getProjectListOf(ModuleAt(m)))

EnvCountOf(p) == Len(getEnvironmentList(p))

ConnCountOf(p, e) == Len(getConnectionList(p, e))

Cursor == <<treeLevel, selectedProject, selectedEnv, selectedConn>>

\* the keys of either map
KeysOf(m1, m2) == (DOMAIN m1) \cup (DOMAIN m2)

\* the two maps give every key the same flag, an absent key reading false
SameFlags(m1, m2) == \A k \in KeysOf(m1, m2) : MapGet(m1, k) = MapGet(m2, k)

\* the last event was routed to a handler of the tree navigator
TreeOps == {"moveTreeUp", "moveTreeDown", "collapseOrMoveUp", "expandOrMoveDown",
            "exitTreeView", "activateTreeItem", "toggleExpansion"}

----------------------------------------------------------------------------
(* C1 -- Cursor bounds: in every reachable state in tree mode,             *)
(* 0 <= selectedProject < projectCount(current module); if treeLevel is    *)
(* Environment or deeper, 0 <= selectedEnv < environmentCount of the       *)
(* selected project; if treeLevel is Connection, 0 <= selectedConn <       *)
(* connectionCount of the selected project and environment.                *)

C1_CursorBounds ==
    inTreeView =>
        /\ 0 <= selectedProject /\ selectedProject < getProjectCount
        /\ treeLevel >= LevelEnvironment =>
               (0 <= selectedEnv /\ selectedEnv < getEnvironmentCount)
        /\ treeLevel = LevelConnection =>
               (0 <= selectedConn /\ selectedConn < getConnectionCount)

\* the environment level of the one-environment project, entered after the
\* cursor had stood on the second environment of another project
C1_Witness ==
    /\ inTreeView
    /\ lastOp = "expandOrMoveDown"
    /\ treeLevel = LevelEnvironment
    /\ selectedProject = 2
    /\ prev.selectedEnv = 1
    /\ selectedEnv = 0

----------------------------------------------------------------------------
(* C2 -- Descendant reset: every tree-mode operation that changes          *)
(* selectedProject leaves selectedEnv = 0 and selectedConn = 0, and every  *)
(* tree-mode operation that changes selectedEnv leaves selectedConn = 0.   *)

C2_DescendantReset ==
    lastOp \in TreeOps =>
        /\ selectedProject # prev.selectedProject =>
               (selectedEnv = 0 /\ selectedConn = 0)
        /\ selectedEnv # prev.selectedEnv => selectedConn = 0

----------------------------------------------------------------------------
(* C3 -- moveDown as claimed: below the last sibling the index of the      *)
(* current level is incremented; otherwise, at level Project or            *)
(* Environment with at least one child on the current path, the level      *)
(* increases by one and the child index becomes 0; otherwise nothing       *)
(* changes.  The rule is claimed for the Project level too.                *)

\* the index of level l in cursor record s
IndexAt(s, l) ==
    CASE l = LevelProject -> s.selectedProject
      [] l = LevelEnvironment -> s.selectedEnv
      [] OTHER -> s.selectedConn

\* the number of siblings at the level of cursor record s
SiblingCount(s) ==
    CASE s.treeLevel = LevelProject -> ProjectCountOf(s.currentModule)
      [] s.treeLevel = LevelEnvironment -> EnvCountOf(s.selectedProject)
      [] OTHER -> ConnCountOf(s.selectedProject, s.selectedEnv)

\* the number of children of the node cursor record s is on
ChildCount(s) ==
    CASE s.treeLevel = LevelProject -> EnvCountOf(s.selectedProject)
      [] s.treeLevel = LevelEnvironment -> ConnCountOf(s.selectedProject, s.selectedEnv)
      [] OTHER -> 0

\* now is prev with the index of prev's level incremented
Incremented(now) ==
    /\ now.treeLevel = prev.treeLevel
    /\ IndexAt(now, prev.treeLevel) = IndexAt(prev, prev.treeLevel) + 1
    /\ \A l \in {LevelProject, LevelEnvironment, LevelConnection} \ {prev.treeLevel} :
           IndexAt(now, l) = IndexAt(prev, l)
    /\ now.expandedNodes = prev.expandedNodes

\* now is prev one level down, on the first child
Descended(now) ==
    /\ now.treeLevel = prev.treeLevel + 1
    /\ IndexAt(now, prev.treeLevel + 1) = 0
    /\ \A l \in 0..prev.treeLevel : IndexAt(now, l) = IndexAt(prev, l)
    /\ now.expandedNodes = prev.expandedNodes

C3_MoveDownDescendsAtEveryLevel ==
    lastOp = "moveTreeDown" =>
        IF IndexAt(prev, prev.treeLevel) < SiblingCount(prev) - 1
        THEN Incremented(Snapshot)
        ELSE IF prev.treeLevel < LevelConnection /\ ChildCount(prev) >= 1
        THEN Descended(Snapshot)
        ELSE Snapshot = prev

(* C3, amended -- moveDown: below the last sibling the index of the        *)
(* current level is incremented; otherwise, at level Environment with at   *)
(* least one connection, the level becomes Connection and selectedConn 0;  *)
(* otherwise, and so on the last project whatever its environments,        *)
(* nothing changes.                                                        *)

C3_MoveDownDescendsFromEnvironmentOnly ==
    lastOp = "moveTreeDown" =>
        IF IndexAt(prev, prev.treeLevel) < SiblingCount(prev) - 1
        THEN Incremented(Snapshot)
        ELSE IF prev.treeLevel = LevelEnvironment /\ ChildCount(prev) >= 1
        THEN Descended(Snapshot)
        ELSE Snapshot = prev

\* moveDown on the last project, which has an environment, has left the cursor there
C3_Witness ==
    /\ lastOp = "moveTreeDown"
    /\ prev.treeLevel = LevelProject
    /\ prev.selectedProject = ProjectCountOf(prev.currentModule) - 1
    /\ EnvCountOf(prev.selectedProject) >= 1
    /\ treeLevel = LevelProject

----------------------------------------------------------------------------
(* C4 -- moveUp: an index above 0 at the current level is decremented and  *)
(* the level kept; otherwise above level Project the level decreases by    *)
(* one and the three indices are kept; at level Project with index 0 the   *)
(* whole state is unchanged.                                               *)

C4_MoveUp ==
    lastOp = "moveTreeUp" =>
        IF IndexAt(prev, prev.treeLevel) > 0
        THEN /\ treeLevel = prev.treeLevel
             /\ IndexAt(Snapshot, prev.treeLevel) = IndexAt(prev, prev.treeLevel) - 1
        ELSE IF prev.treeLevel > LevelProject
        THEN /\ treeLevel = prev.treeLevel - 1
             /\ selectedProject = prev.selectedProject
             /\ selectedEnv = prev.selectedEnv
             /\ selectedConn = prev.selectedConn
        ELSE Snapshot = prev

\* moveUp from the first connection of the second environment has ascended
C4_Witness ==
    /\ lastOp = "moveTreeUp"
    /\ prev.treeLevel = LevelConnection
    /\ prev.selectedConn = 0
    /\ prev.selectedEnv = 1
    /\ treeLevel = LevelEnvironment

----------------------------------------------------------------------------
(* C5 -- toggleExpansion flips the flag of the highlighted node under the  *)
(* key the rest of the program uses for it: at level Project the flag of   *)
(* project selectedProject that expandOrMoveDown sets, collapseOrMoveUp    *)
(* clears and rendering reads; at level Environment the flag of            *)
(* environment (selectedProject, selectedEnv).                             *)

\* the key rendering, expandOrMoveDown and collapseOrMoveUp use for the node
\* cursor record s highlights (levels Project and Environment)
HighlightedNodeKey(s) ==
    IF s.treeLevel = LevelProject
    THEN projectKey(ModuleAt(s.currentModule), s.selectedProject)
    ELSE envKey(ModuleAt(s.currentModule), s.selectedProject, s.selectedEnv)

C5_ToggleFlipsHighlightedNode ==
    (lastOp = "toggleExpansion" /\ prev.treeLevel \in {LevelProject, LevelEnvironment}) =>
        MapGet(expandedNodes, HighlightedNodeKey(prev))
            = ~MapGet(prev.expandedNodes, HighlightedNodeKey(prev))

----------------------------------------------------------------------------
(* C6 -- toggleExpansion is an involution that does not move the cursor:   *)
(* a toggleExpansion leaves treeLevel and the three indices unchanged, and *)
(* two consecutive ones leave every flag of the expansion map as it was    *)
(* (an absent entry reading false).                                        *)

C6_ToggleInvolution ==
    [][ /\ lastOp' = "toggleExpansion" => Cursor' = Cursor
        /\ (lastOp = "toggleExpansion" /\ lastOp' = "toggleExpansion") =>
               SameFlags(expandedNodes', prev.expandedNodes)
      ]_vars

\* the second of two toggles that directly followed entering the tree has
\* turned the flag the first one set back off
C6_Witness ==
    /\ lastOp = "toggleExpansion"
    /\ nEvents = 3
    /\ inTreeView
    /\ DOMAIN expandedNodes = {getCurrentNodeKey}
    /\ MapGet(prev.expandedNodes, getCurrentNodeKey) = TRUE
    /\ MapGet(expandedNodes, getCurrentNodeKey) = FALSE

----------------------------------------------------------------------------
(* C7 -- expandOrMoveDown directly followed by collapseOrMoveUp, as        *)
(* claimed for every level: treeLevel and the index of the starting level  *)
(* are back at their values before the expand, the tree is still shown,    *)
(* and the flag the collapse cleared is false.                             *)

\* the key collapseOrMoveUp clears when called at the level of cursor record s
CollapsedKey(s) ==
    IF s.treeLevel = LevelConnection
    THEN envKey(ModuleAt(s.currentModule), s.selectedProject, s.selectedEnv)
    ELSE projectKey(ModuleAt(s.currentModule), s.selectedProject)

\* In a step from an expand to a collapse, prev is the state before the
\* expand and prev' the state between the two.
ExpandThenCollapseRestores ==
    /\ treeLevel' = prev.treeLevel
    /\ IndexAt(Snapshot', prev.treeLevel) = IndexAt(prev, prev.treeLevel)
    /\ inTreeView'
    /\ MapGet(expandedNodes', CollapsedKey(prev')) = FALSE

C7_ExpandThenCollapseAtEveryLevel ==
    [][ (lastOp = "expandOrMoveDown" /\ lastOp' = "collapseOrMoveUp") =>
            ExpandThenCollapseRestores
      ]_vars

(* C7, amended -- from a reachable tree-mode state at level Project or     *)
(* Environment, expandOrMoveDown directly followed by collapseOrMoveUp     *)
(* returns treeLevel and the index of the starting level to their values   *)
(* before the expand, stays in tree mode, and leaves the flag of the node  *)
(* cleared by the collapse false.                                          *)

C7_ExpandThenCollapseAboveConnection ==
    [][ ( /\ lastOp = "expandOrMoveDown"
          /\ lastOp' = "collapseOrMoveUp"
          /\ prev.treeLevel \in {LevelProject, LevelEnvironment} ) =>
            ExpandThenCollapseRestores
      ]_vars

\* Enter, expand, expand, collapse: the collapse that directly followed the
\* expand of environment 0 has cleared the flag that expand had set
C7_Witness ==
    /\ lastOp = "collapseOrMoveUp"
    /\ nEvents = 4
    /\ prev.treeLevel = LevelConnection
    /\ treeLevel = LevelEnvironment
    /\ MapGet(prev.expandedNodes, CollapsedKey(prev)) = TRUE
    /\ MapGet(expandedNodes, CollapsedKey(prev)) = FALSE

----------------------------------------------------------------------------
(* C8 -- collapseOrMoveUp changes at most one flag: at level Connection    *)
(* the flag of the selected environment becomes false, at level            *)
(* Environment the flag of the selected project becomes false, at level    *)
(* Project no flag changes; every other entry, the flags of descendants of *)
(* the collapsed node among them, keeps its value and no entry is removed. *)

C8_CollapseFrame ==
    lastOp = "collapseOrMoveUp" =>
        /\ DOMAIN prev.expandedNodes \subseteq DOMAIN expandedNodes
        /\ IF prev.treeLevel = LevelProject
           THEN expandedNodes = prev.expandedNodes
           ELSE /\ DOMAIN expandedNodes = DOMAIN prev.expandedNodes \cup {CollapsedKey(prev)}
                /\ expandedNodes[CollapsedKey(prev)] = FALSE
                /\ \A k \in DOMAIN expandedNodes \ {CollapsedKey(prev)} :
                       expandedNodes[k] = prev.expandedNodes[k]

\* a project has been collapsed while the flag of one of its environments is set
C8_Witness ==
    /\ lastOp = "collapseOrMoveUp"
    /\ prev.treeLevel = LevelEnvironment
    /\ MapGet(prev.expandedNodes, CollapsedKey(prev)) = TRUE
    /\ MapGet(expandedNodes, CollapsedKey(prev)) = FALSE
    /\ \E j \in 0..(EnvCountOf(selectedProject) - 1) :
           MapGet(expandedNodes, envKey(ModuleAt(currentModule), selectedProject, j)) = TRUE

----------------------------------------------------------------------------
(* C9 -- Quit-confirmation round trip: opening the confirmation and then   *)
(* cancelling it returns to the mode that was active before, with          *)
(* treeLevel, the three indices, hoveredModule, currentModule and the      *)
(* expansion map as they were just before the confirmation was opened.     *)

\* In a step from the opening to the cancelling, prev is the state before
\* the opening; Snapshot covers the mode flags as well as the fields named.
C9_ConfirmRoundTrip ==
    [][ (lastOp = "showExitConfirmation" /\ lastOp' = "hideExitConfirmation") =>
            Snapshot' = prev
      ]_vars

\* Enter, j, q, q, n: the confirmation opened over a left tree session has
\* been cancelled, the hover and the stale cursor being where they were
C9_Witness ==
    /\ lastOp = "hideExitConfirmation"
    /\ nEvents = 5
    /\ prev.showingConfirm
    /\ ~showingConfirm
    /\ ~inTreeView
    /\ selectedProject = 1

----------------------------------------------------------------------------
(* C10 -- While the quit confirmation is pending, every input other than   *)
(* y/Y and n/N is handed back unhandled: it reaches neither the module     *)
(* selector nor the tree navigator, the confirmation stays pending, and    *)
(* hoveredModule, currentModule, the tree cursor, the tree-mode flag and   *)
(* the expansion map are unchanged.                                        *)

ConfirmKeys == [Key : {"KeyRune"}, Rune : {"y", "Y", "n", "N"}]

C10_ConfirmSwallowsOtherInput ==
    /\ showingConfirm =>
           \A ev \in Events \ ConfirmKeys : handleKeyEvent(ev) = "returnEvent"
    /\ (prev.showingConfirm /\ lastOp \notin {"Stop", "hideExitConfirmation"}) =>
           (lastOp = "returnEvent" /\ showingConfirm /\ Snapshot = prev)

\* an input other than y/n has been delivered while the confirmation was
\* pending over a moved hover
C10_Witness ==
    /\ lastOp = "returnEvent"
    /\ prev.showingConfirm
    /\ showingConfirm
    /\ hoveredModule # currentModule

----------------------------------------------------------------------------
(* C11 -- Repeated collapseOrMoveUp reaches Browsing in at most three      *)
(* steps: from level Connection the first call leads to level Environment, *)
(* the second to level Project, the third out of tree mode; every call     *)
(* made in tree mode lowers the number of calls still needed by one.       *)

\* the number of collapseOrMoveUp calls that lead from the state to Browsing
CollapsesToBrowsing == IF inTreeView THEN treeLevel + 1 ELSE 0

\* In a step from one collapse to the next, prev is the state before the
\* first of the two.
C11_CollapseReachesBrowsing ==
    [][ /\ lastOp' = "collapseOrMoveUp" =>
               /\ CollapsesToBrowsing \in 1..3
               /\ CollapsesToBrowsing' = CollapsesToBrowsing - 1
        /\ (lastOp = "collapseOrMoveUp" /\ lastOp' = "collapseOrMoveUp") =>
               /\ prev.treeLevel = LevelConnection =>
                      /\ inTreeView /\ treeLevel = LevelEnvironment
                      /\ inTreeView' /\ treeLevel' = LevelProject
               /\ prev.treeLevel = LevelEnvironment =>
                      /\ inTreeView /\ treeLevel = LevelProject
                      /\ ~inTreeView'
      ]_vars

\* Enter, expand, expand, then three collapses: both flags set on the way
\* down have been cleared and the third collapse has left the tree
C11_Witness ==
    /\ lastOp = "collapseOrMoveUp"
    /\ nEvents = 6
    /\ ~inTreeView
    /\ prev.inTreeView
    /\ prev.treeLevel = LevelProject
    /\ DOMAIN expandedNodes = {projectKey(ModuleAt(currentModule), selectedProject),
                               envKey(ModuleAt(currentModule), selectedProject, selectedEnv)}
    /\ \A k \in DOMAIN expandedNodes : expandedNodes[k] = FALSE

----------------------------------------------------------------------------
(* C12 -- The MySQL scenario.  With MySQL (index 1) committed and the      *)
(* cursor at the project level: moveTreeDown leads from project 0 to 1 and *)
(* from 1 to 2, and changes nothing at project 2; expandOrMoveDown at      *)
(* project 2 leads to the environment level with selectedEnv 0;            *)
(* moveTreeDown from that sole environment leads to the connection level   *)
(* with selectedConn 0; moveTreeDown then leads to connection 1, then 2,   *)
(* and changes nothing at connection 2.                                    *)

MySQLIndex == 1

C12_MySQLScenario ==
    (prev.currentModule = MySQLIndex /\ prev.inTreeView /\ ModuleAt(MySQLIndex) = "MySQL") =>
        /\ (lastOp = "moveTreeDown" /\ prev.treeLevel = LevelProject) =>
               /\ treeLevel = LevelProject
               /\ prev.selectedProject = 0 => selectedProject = 1
               /\ prev.selectedProject = 1 => selectedProject = 2
               /\ prev.selectedProject = 2 => Snapshot = prev
        /\ (lastOp = "expandOrMoveDown" /\ prev.treeLevel = LevelProject
                                        /\ prev.selectedProject = 2) =>
               /\ treeLevel = LevelEnvironment
               /\ selectedProject = 2
               /\ selectedEnv = 0
        /\ (lastOp = "moveTreeDown" /\ prev.treeLevel = LevelEnvironment
                                    /\ prev.selectedProject = 2 /\ prev.selectedEnv = 0) =>
               /\ treeLevel = LevelConnection
               /\ selectedProject = 2
               /\ selectedEnv = 0
               /\ selectedConn = 0
        /\ (lastOp = "moveTreeDown" /\ prev.treeLevel = LevelConnection) =>
               /\ treeLevel = LevelConnection
               /\ prev.selectedConn = 0 => selectedConn = 1
               /\ prev.selectedConn = 1 => selectedConn = 2
               /\ prev.selectedConn = 2 => Snapshot = prev

\* hover MySQL, commit, down, down, expand, down (descend), down, down, and
\* a last down that changes nothing
C12_Witness ==
    /\ nEvents = 9
    /\ lastOp = "moveTreeDown"
    /\ currentModule = MySQLIndex
    /\ inTreeView
    /\ treeLevel = LevelConnection
    /\ selectedProject = 2
    /\ selectedEnv = 0
    /\ selectedConn = 2
    /\ prev.selectedConn = 2
    /\ DOMAIN expandedNodes = {"MySQL-proj-2"}
    /\ expandedNodes["MySQL-proj-2"] = TRUE

----------------------------------------------------------------------------
(* C13 -- Committing a module (Enter or Space while browsing) sets         *)
(* currentModule to hoveredModule and enters the tree at the project level *)
(* with all three indices 0, whatever the cursor left behind by an earlier *)
(* visit; no other operation changes currentModule.                        *)

Browsing == running /\ state = Normal /\ ~showingConfirm /\ ~inTreeView

C13_CommitResetsCursor ==
    /\ Browsing =>
           /\ handleKeyEvent([Key |-> "KeyEnter", Rune |-> NoRune]) = "enterTreeView"
           /\ handleKeyEvent([Key |-> "KeyRune", Rune |-> " "]) = "enterTreeView"
    /\ lastOp = "enterTreeView" =>
           /\ ~prev.inTreeView /\ ~prev.showingConfirm
           /\ currentModule = prev.hoveredModule
           /\ hoveredModule = prev.hoveredModule
           /\ inTreeView
           /\ treeLevel = LevelProject
           /\ selectedProject = 0
           /\ selectedEnv = 0
           /\ selectedConn = 0
    /\ lastOp # "enterTreeView" => currentModule = prev.currentModule

\* the cursor was left deep in another module's tree before the commit
C13_Witness ==
    /\ lastOp = "enterTreeView"
    /\ prev.currentModule # currentModule
    /\ prev.treeLevel = LevelConnection
    /\ prev.selectedProject = 2
    /\ prev.selectedConn = 1
    /\ Cursor = <<0, 0, 0, 0>>

----------------------------------------------------------------------------
(* C14 -- Expansion flags persist: leaving the tree (Esc, q, or collapse   *)
(* at the project level), moving the module hover, committing the same or  *)
(* another module, and opening or cancelling the exit confirmation leave   *)
(* every entry of expandedNodes as it was.                                 *)

FlagPreservingOps == {"exitTreeView", "moveToPreviousHover", "moveToNextHover",
                      "enterTreeView", "showExitConfirmation", "hideExitConfirmation"}

C14_FlagsPersist ==
    /\ lastOp \in FlagPreservingOps => expandedNodes = prev.expandedNodes
    /\ (lastOp = "collapseOrMoveUp" /\ prev.treeLevel = LevelProject) =>
           /\ ~inTreeView
           /\ expandedNodes = prev.expandedNodes

\* a flag set during a visit of one module is still set after leaving the
\* tree and committing another module
C14_Witness ==
    /\ lastOp = "enterTreeView"
    /\ prev.currentModule # currentModule
    /\ MapGet(expandedNodes, projectKey(ModuleAt(prev.currentModule), 0)) = TRUE
    /\ expandedNodes = prev.expandedNodes

----------------------------------------------------------------------------
(* C15 -- hoveredModule and currentModule always lie in 0..len(modules)-1; *)
(* moveToPreviousHover at index 0 and moveToNextHover at the last index    *)
(* leave the whole state unchanged, and otherwise change hoveredModule by  *)
(* exactly one and nothing else.                                           *)

C15_ModuleBounds ==
    /\ hoveredModule \in 0..(Len(modules) - 1)
    /\ currentModule \in 0..(Len(modules) - 1)
    /\ lastOp = "moveToPreviousHover" =>
           Snapshot = IF prev.hoveredModule = 0
                      THEN prev
                      ELSE [prev EXCEPT !.hoveredModule = @ - 1]
    /\ lastOp = "moveToNextHover" =>
           Snapshot = IF prev.hoveredModule = Len(modules) - 1
                      THEN prev
                      ELSE [prev EXCEPT !.hoveredModule = @ + 1]

\* moveToNextHover on the last module
C15_Witness ==
    /\ lastOp = "moveToNextHover"
    /\ prev.hoveredModule = Len(modules) - 1
    /\ hoveredModule = Len(modules) - 1
    /\ currentModule = 0

----------------------------------------------------------------------------
(* C16 -- Pressing ESC exits the program: in every reachable state in      *)
(* which the application is running, an ESC key event is handled by        *)
(* stopping the application.                                               *)

EscEvent == [Key |-> "KeyEsc", Rune |-> NoRune]

C16_EscExits ==
    running => handleKeyEvent(EscEvent) = "Stop"

----------------------------------------------------------------------------
(* C17 -- Expansion is a precondition for auto-descend: whenever           *)
(* moveTreeDown raises treeLevel, the flag rendering reads for the node    *)
(* descended from (the selected project, respectively the selected         *)
(* environment) is true in the state before the move; moveTreeUp and       *)
(* moveTreeDown never change any expansion flag.                           *)

C17_DescendOnlyIntoExpanded ==
    /\ (lastOp = "moveTreeDown" /\ treeLevel > prev.treeLevel) =>
           MapGet(prev.expandedNodes, HighlightedNodeKey(prev)) = TRUE
    /\ lastOp \in {"moveTreeUp", "moveTreeDown"} => expandedNodes = prev.expandedNodes

----------------------------------------------------------------------------
(* C18 -- Every state-mutating operation re-renders the view of the        *)
(* mutated state: after each handled event the content last rendered into  *)
(* the main panel is the content rendering the current state produces; in  *)
(* particular after leaving tree mode the main panel shows the overview.   *)

C18_PanelShowsCurrentState ==
    /\ mainPanel = MainPanelContent
    /\ lastOp = "exitTreeView" => mainPanel = renderOverview

----------------------------------------------------------------------------
(* C19 -- Cursor visibility: in every tree-mode state the highlighted node *)
(* is on a rendered line.  At level Environment or below the flag          *)
(* rendering reads for project (current module, selectedProject) is true;  *)
(* at level Connection the flag for environment (current module,           *)
(* selectedProject, selectedEnv) is true as well.                          *)

C19_CursorVisible ==
    inTreeView =>
        /\ treeLevel >= LevelEnvironment =>
               MapGet(expandedNodes,
                      projectKey(ModuleAt(currentModule), selectedProject)) = TRUE
        /\ treeLevel = LevelConnection =>
               MapGet(expandedNodes,
                      envKey(ModuleAt(currentModule), selectedProject, selectedEnv)) = TRUE

----------------------------------------------------------------------------
(* C20 -- Mode exclusivity: the exit confirmation becomes pending only     *)
(* from browsing the module bar, so showingConfirm and inTreeView are      *)
(* never both true, and state never leaves Normal; q or Q in tree mode     *)
(* leaves the tree and does not open the confirmation.                     *)

C20_ModeExclusive ==
    /\ ~(showingConfirm /\ inTreeView)
    /\ state = Normal
    /\ lastOp = "showExitConfirmation" =>
           /\ ~prev.inTreeView /\ ~prev.showingConfirm
           /\ showingConfirm
    /\ (running /\ inTreeView) =>
           /\ handleKeyEvent([Key |-> "KeyRune", Rune |-> "q"]) = "exitTreeView"
           /\ handleKeyEvent([Key |-> "KeyRune", Rune |-> "Q"]) = "exitTreeView"
    /\ lastOp = "exitTreeView" =>
           /\ prev.inTreeView
           /\ ~inTreeView
           /\ ~showingConfirm

\* the tree was left and the confirmation then opened from the module bar
C20_Witness ==
    /\ lastOp = "showExitConfirmation"
    /\ showingConfirm
    /\ ~inTreeView
    /\ nEvents >= 3
    /\ DOMAIN expandedNodes # {}

====
